---- MODULE Spec2Model ----
(***************************************************************************)
(* Publisher / bounded channel / subscriber simulation of                  *)
(* labs/day04_pubsub/day04_pubsub_sim.py (and its refactoring              *)
(* labs/day05_configdriven/src/sources/pubsub.py).                         *)
(*                                                                         *)
(* Three kinds of asyncio tasks share one event loop: the main task (which *)
(* runs publisher() inline, then queue.join(), then awaits the subscriber),*)
(* the subscriber task, and one delayed_send task per slow-path message.   *)
(* asyncio is cooperative: a task runs until it suspends (sleep, put on a  *)
(* full queue, get on an empty queue, join, await of an unfinished task).  *)
(* The variable `running` names the task that is between two suspension   *)
(* points; no other task takes a step meanwhile.  Which suspended task     *)
(* resumes next is left open: timer expiry and the order of the event      *)
(* loop's ready queue are not modelled, any task whose await can complete  *)
(* may be the next to run.                                                 *)
(*                                                                         *)
(* The deduplication strategies of labs/day04_pubsub/dedup_strategies.py   *)
(* (and labs/day05_configdriven/src/strategies/dedup.py) are operators on  *)
(* frames. SpecDedup runs run_all_strategies of run_comparison.py on one   *)
(* batch, repeatedly; SpecUpsert calls merge_dedup_delta with a sequence   *)
(* of batches. polars fixes neither the row order of unique() nor the      *)
(* order of equal keys after sort(): every such order is considered.       *)
(* SpecFail runs the strategies on files whose records may lack a column   *)
(* a strategy reads. SpecAnalyze hands analyze() arbitrary produced and    *)
(* received lists. SpecPair runs the sim twice on one --seed and compares  *)
(* the lists of the two runs.                                              *)
(***************************************************************************)
EXTENDS Integers, Sequences, FiniteSets, TLC

\* ---------------------------------------------------------------- bounds
\* largest total_messages and largest queue maxsize explored
MaxMessages == 2
MaxBuffer == 2
\* number of records the buffer of the output file object holds before it
\* is written out (io.DEFAULT_BUFFER_SIZE, scaled down to records)
BufRecords == 2
\* largest batch handed to the strategies and largest number of runs
MaxBatch == 3
MaxRuns == 2
\* largest batch of a sequence of upsert runs
MaxUpsertBatch == 2
\* longest received list handed to analyze() on its own
MaxReceived == 3
\* most messages of a run in a pair of seeded runs
MaxPairMessages == 3
\* most messages of a run in a pair of runs whose seed is not applied
MaxUnseededMessages == 1

\* probabilities in percent; a draw is random.random() scaled to percent
Probs == {0, 50, 100}
Draws == {0, 50, 99}

VARIABLES
    total_messages,   \* args.messages
    buffer,           \* args.buffer (maxsize of the queue)
    partitions,       \* args.partitions
    dup_prob,         \* args.dup_prob, percent
    slow_prob,        \* args.slow_prob, percent
    id_pool,          \* message ids random_id() can return in this run
    queue,            \* asyncio.Queue contents, head first
    unfinished,       \* asyncio.Queue._unfinished_tasks
    joinWoken,        \* the waiter of queue.join() has been released
    produced,         \* publisher's produced list
    seq,              \* publisher's loop variable
    dup_msg,          \* publisher's dup_msg awaiting its put
    pubPc,            \* position of the main task (publisher, then main)
    senderPc,         \* position of each delayed_send task, by sequence_id
    subPc,            \* position of the subscriber task
    arrival_index,    \* subscriber's arrival_index
    records,          \* subscriber's records list
    fileBuf,          \* records written to f and still in its buffer
    fileDisk,         \* records that have reached the output file
    running,          \* task between two suspension points, or "none"
    putLog,           \* history: items in the order their put completed
    getLog,           \* history: items in the order the subscriber got them
    batch,            \* df handed to the strategies, in input order
    stratPc,          \* strategy that runs next in run_all_strategies
    runs,             \* number of the current run of the comparison
    eager_out,        \* rows returned by eager_dedup (row order unspecified)
    eager_metrics,    \* metrics returned by eager_dedup
    bronze_table,     \* rows of the table pubsub_bronze_append
    bronze_metrics,   \* metrics returned by add_hashes
    merge_out,        \* rows returned by merge_dedup_polars
    merge_metrics,    \* metrics returned by merge_dedup_polars
    delta_exists,     \* table_path.exists() of pubsub_delta_merge
    delta_table,      \* rows of the table pubsub_delta_merge
    delta_metrics,    \* metrics returned by merge_dedup_delta
    submitted,        \* history: <<message_id, created_at>> of every row
                      \* handed to merge_dedup_delta
    failed,           \* strategies that raised in the current run
    report,           \* what analyze() printed
    pairCfg,          \* two runs of the sim under comparison: --seed,
                      \* --messages and the --dup-prob of each run
    pairRun           \* the two runs: which one is running, its loop index
                      \* and position in the random stream, the wall clock,
                      \* the stream drawn so far and both runs' lists

simVars == <<total_messages, buffer, partitions, dup_prob, slow_prob, id_pool,
             queue, unfinished, joinWoken, produced, seq, dup_msg, pubPc,
             senderPc, subPc, arrival_index, records, fileBuf, fileDisk,
             running, putLog, getLog, report>>

strategyVars == <<batch, stratPc, runs, eager_out, eager_metrics, bronze_table,
                  bronze_metrics, merge_out, merge_metrics, delta_exists,
                  delta_table, delta_metrics, submitted, failed>>

pairVars == <<pairCfg, pairRun>>

vars == <<simVars, strategyVars, pairVars>>

config == <<total_messages, buffer, partitions, dup_prob, slow_prob, id_pool>>

\* ---------------------------------------------------------------- values
None == [sentinel |-> TRUE]

Message(mid, s, pid, ts) ==
    [message_id |-> mid, sequence_id |-> s, partition_id |-> pid,
     created_at |-> ts, value |-> 100, zipcode |-> "10000"]

Record(item, idx) ==
    [event |-> "message_received",
     message_id |-> item.message_id,
     sequence_id |-> item.sequence_id,
     partition_id |-> item.partition_id,
     created_at |-> item.created_at,
     arrival_index |-> idx,
     value |-> item.value,
     zipcode |-> item.zipcode]

\* ---------------------------------------------------------------- channel
\* asyncio.Queue.full(): maxsize <= 0 means the queue is never full
FullOffByOne == IF buffer <= 0 THEN FALSE ELSE Len(queue) > buffer
Full == IF buffer <= 0 THEN FALSE ELSE Len(queue) >= buffer

\* asyncio.Queue._put: append on the right
QPut(q, item) == Append(q, item)

\* asyncio.Queue._get: popleft; the pair <<item, rest of the queue>>
QGetLifo(q) == <<q[Len(q)], SubSeq(q, 1, Len(q) - 1)>>
QGet(q) == <<Head(q), Tail(q)>>

\* put_nowait: enqueue, count the unfinished task, and log the put
PutNowait(item) ==
    /\ queue' = QPut(queue, item)
    /\ unfinished' = unfinished + 1
    /\ putLog' = Append(putLog, item)

\* ---------------------------------------------------------------- init
\* no strategy has run: no batch is loaded and no table exists
NoMetrics == [strategy |-> "none"]

StrategyIdle ==
    /\ batch = <<>>
    /\ stratPc = "idle"
    /\ runs = 0
    /\ eager_out = {}
    /\ eager_metrics = NoMetrics
    /\ bronze_table = <<>>
    /\ bronze_metrics = NoMetrics
    /\ merge_out = {}
    /\ merge_metrics = NoMetrics
    /\ delta_exists = FALSE
    /\ delta_table = {}
    /\ delta_metrics = NoMetrics
    /\ submitted = {}
    /\ failed = {}

\* no pair of runs is under comparison
NoPair == [seed |-> "none"]

PairIdle == pairCfg = NoPair /\ pairRun = <<>>

\* analyze() has not run
NoReport == [printed |-> FALSE]

\* state of main() before its tasks have run
SimStart ==
    /\ queue = <<>>
    /\ unfinished = 0
    /\ joinWoken = FALSE
    /\ produced = <<>>
    /\ seq = 1
    /\ dup_msg = None
    /\ pubPc = "sleep"
    /\ senderPc = [s \in 1..MaxMessages |-> "none"]
    /\ subPc = "get"
    /\ arrival_index = 0
    /\ records = <<>>
    /\ fileBuf = <<>>
    /\ fileDisk = <<>>
    /\ running = "none"
    /\ putLog = <<>>
    /\ getLog = <<>>
    /\ report = NoReport

Init ==
    /\ StrategyIdle
    /\ PairIdle
    /\ total_messages \in 1..MaxMessages
    /\ buffer \in 0..MaxBuffer
    /\ partitions = 1
    /\ dup_prob \in Probs
    /\ slow_prob \in Probs
    /\ id_pool = {"a"}
    /\ SimStart

\* ---------------------------------------------------------------- publisher
\* time.time() read by the publisher: logical time, one tick per loop pass
Now == seq

\* sequence_id given to the message generated in loop pass s
SequenceIdZeroBased(s) == s - 1
SequenceId(s) == s

\* produced.append(msg)
ProducedAppend(hist, msg) == Append(hist, msg)

\* position after the body of the for loop: next pass (sleep) or sentinel
LoopNext ==
    IF seq < total_messages
    THEN /\ seq' = seq + 1
         /\ pubPc' = "sleep"
         /\ running' = "none"
    ELSE /\ seq' = seq
         /\ pubPc' = "put_sentinel"
         /\ running' = "main"

\* the sleep of loop pass seq is over: build the message, record it, and
\* choose between the slow path (create_task(delayed_send)) and a direct put
PubGenerate ==
    /\ running = "none"
    /\ pubPc = "sleep"
    /\ \E mid \in id_pool, pid \in 0..(partitions - 1), r \in Draws :
          LET msg == Message(mid, SequenceId(seq), pid, Now) IN
          /\ produced' = ProducedAppend(produced, msg)
          /\ IF r < slow_prob
             THEN /\ senderPc' = [senderPc EXCEPT ![seq] = "sleep"]
                  /\ pubPc' = "dup_check"
             ELSE /\ senderPc' = senderPc
                  /\ pubPc' = "put_msg"
    /\ running' = "main"
    /\ UNCHANGED <<config, strategyVars, pairVars, report, queue, unfinished, joinWoken, seq, dup_msg, subPc,
                   arrival_index, records, fileBuf, fileDisk, putLog, getLog>>

\* await queue.put(msg) of the direct path
PubPutMsg ==
    /\ running \in {"none", "main"}
    /\ pubPc = "put_msg"
    /\ ~Full
    /\ PutNowait(produced[Len(produced)])
    /\ pubPc' = "dup_check"
    /\ running' = "main"
    /\ UNCHANGED <<config, strategyVars, pairVars, report, joinWoken, produced, seq, dup_msg, senderPc, subPc,
                   arrival_index, records, fileBuf, fileDisk, getLog>>

\* random.choice(produced): the i-th entry of the history, the same object
RandomChoiceRestamped(hist, i) == [hist[i] EXCEPT !.created_at = @ + 1]
RandomChoice(hist, i) == hist[i]

\* if produced and random.random() < dup_prob: dup_msg = random.choice(produced)
PubDupCheck ==
    /\ running = "main"
    /\ pubPc = "dup_check"
    /\ \E r \in Draws :
          IF produced # <<>> /\ r < dup_prob
          THEN /\ \E i \in 1..Len(produced) :
                     dup_msg' = RandomChoice(produced, i)
               /\ pubPc' = "put_dup"
               /\ running' = "main"
               /\ seq' = seq
          ELSE /\ dup_msg' = dup_msg
               /\ LoopNext
    /\ UNCHANGED <<config, strategyVars, pairVars, report, queue, unfinished, joinWoken, produced, senderPc,
                   subPc, arrival_index, records, fileBuf, fileDisk, putLog,
                   getLog>>

\* await queue.put(dup_msg)
PubPutDup ==
    /\ running \in {"none", "main"}
    /\ pubPc = "put_dup"
    /\ ~Full
    /\ PutNowait(dup_msg)
    /\ dup_msg' = None
    /\ LoopNext
    /\ UNCHANGED <<config, strategyVars, pairVars, report, joinWoken, produced, senderPc, subPc,
                   arrival_index, records, fileBuf, fileDisk, getLog>>

\* await queue.put(None); return produced
PubPutSentinel ==
    /\ running \in {"none", "main"}
    /\ pubPc = "put_sentinel"
    /\ ~Full
    /\ PutNowait(None)
    /\ pubPc' = "join"
    /\ running' = "main"
    /\ UNCHANGED <<config, strategyVars, pairVars, report, joinWoken, produced, seq, dup_msg, senderPc, subPc,
                   arrival_index, records, fileBuf, fileDisk, getLog>>

\* ---------------------------------------------------------------- analyze
\* received_seq_ids = [r["sequence_id"] for r in received]
ReceivedSeqIds(received) == [j \in DOMAIN received |-> received[j].sequence_id]

\* analyze(): missing = produced_seq_ids - set(received_seq_ids)
Missing(prod, received) ==
    {prod[i].sequence_id : i \in DOMAIN prod}
        \ {received[j].sequence_id : j \in DOMAIN received}

\* the loop over received_seq_ids: a seq already in seen goes to dupes
RECURSIVE DupesLoop(_, _, _)
DupesLoopSeenAll(seqs, seen, dupes) == {seqs[j] : j \in DOMAIN seqs}
DupesLoop(seqs, seen, dupes) ==
    IF seqs = <<>> THEN dupes
    ELSE IF Head(seqs) \in seen
         THEN DupesLoop(Tail(seqs), seen, dupes \cup {Head(seqs)})
         ELSE DupesLoop(Tail(seqs), seen \cup {Head(seqs)}, dupes)

Dupes(received) == DupesLoop(ReceivedSeqIds(received), {}, {})

\* by_partition[pid]: the sequence_ids received for pid, in received order
RECURSIVE ByPartition(_, _)
ByPartition(received, pid) ==
    IF received = <<>> THEN <<>>
    ELSE (IF Head(received).partition_id = pid
          THEN <<Head(received).sequence_id>> ELSE <<>>)
         \o ByPartition(Tail(received), pid)

\* sorted(seqs)
Sorted(seqs) == SortSeq(seqs, LAMBDA a, b : a < b)

\* the partitions for which "Out-of-order detected" is printed
OutOfOrder(received) ==
    {pid \in {received[j].partition_id : j \in DOMAIN received} :
        ByPartition(received, pid) # Sorted(ByPartition(received, pid))}

\* analyze(produced, received): what it prints
Analyze(prod, received) ==
    [printed |-> TRUE,
     missing |-> Missing(prod, received),
     dupes |-> Dupes(received),
     out_of_order |-> OutOfOrder(received)]

\* ---------------------------------------------------------------- main
\* queue.join(): if self._unfinished_tasks > 0: await self._finished.wait()
JoinMustWait == unfinished > 0

MainJoin ==
    /\ running = "main"
    /\ pubPc = "join"
    /\ IF JoinMustWait
       THEN /\ pubPc' = "join_wait"
            /\ running' = "none"
       ELSE /\ pubPc' = "await_sub"
            /\ running' = "main"
    /\ UNCHANGED <<config, strategyVars, pairVars, report, queue, unfinished, joinWoken, produced, seq,
                   dup_msg, senderPc, subPc, arrival_index, records, fileBuf,
                   fileDisk, putLog, getLog>>

\* the waiter of _finished.wait() was released by task_done(): join returns
MainJoinReturn ==
    /\ running = "none"
    /\ pubPc = "join_wait"
    /\ joinWoken
    /\ pubPc' = "await_sub"
    /\ running' = "main"
    /\ UNCHANGED <<config, strategyVars, pairVars, report, queue, unfinished, joinWoken, produced, seq,
                   dup_msg, senderPc, subPc, arrival_index, records, fileBuf,
                   fileDisk, putLog, getLog>>

\* asyncio.run() cancels the tasks still pending when main returns
CancelPending(pcs) ==
    [s \in DOMAIN pcs |->
        IF pcs[s] \in {"sleep", "put"} THEN "cancelled" ELSE pcs[s]]

\* received = await subscriber_task; analyze(produced, received); return
MainAwaitSub ==
    /\ running \in {"none", "main"}
    /\ pubPc = "await_sub"
    /\ subPc = "done"
    /\ pubPc' = "done"
    /\ running' = "none"
    /\ senderPc' = CancelPending(senderPc)
    /\ report' = Analyze(produced, records)
    /\ UNCHANGED <<config, strategyVars, pairVars, queue, unfinished, joinWoken, produced, seq,
                   dup_msg, subPc, arrival_index, records, fileBuf, fileDisk,
                   putLog, getLog>>

\* the await the main task is at cannot complete now
MainMustWait ==
    IF pubPc \in {"put_msg", "put_dup", "put_sentinel"} THEN Full
    ELSE IF pubPc = "await_sub" THEN subPc # "done"
    ELSE FALSE

\* the main task reaches an await that cannot complete now and suspends
MainSuspend ==
    /\ running = "main"
    /\ MainMustWait
    /\ running' = "none"
    /\ UNCHANGED <<config, strategyVars, pairVars, report, queue, unfinished, joinWoken, produced, seq,
                   dup_msg, pubPc, senderPc, subPc, arrival_index, records,
                   fileBuf, fileDisk, putLog, getLog>>

\* ---------------------------------------------------------------- delayed_send
\* await asyncio.sleep(extra_delay) is over
SenderTimer(s) ==
    /\ running = "none"
    /\ senderPc[s] = "sleep"
    /\ senderPc' = [senderPc EXCEPT ![s] = "put"]
    /\ UNCHANGED <<config, strategyVars, pairVars, report, queue, unfinished, joinWoken, produced, seq,
                   dup_msg, pubPc, subPc, arrival_index, records, fileBuf,
                   fileDisk, running, putLog, getLog>>

\* await queue.put(msg)
SenderPut(s) ==
    /\ running = "none"
    /\ senderPc[s] = "put"
    /\ ~Full
    /\ PutNowait(produced[s])
    /\ senderPc' = [senderPc EXCEPT ![s] = "done"]
    /\ UNCHANGED <<config, strategyVars, pairVars, report, joinWoken, produced, seq, dup_msg, pubPc, subPc,
                   arrival_index, records, fileBuf, fileDisk, running, getLog>>

\* ---------------------------------------------------------------- subscriber
\* arrival_index += 1
NextArrivalIndexStale(idx) == idx
NextArrivalIndex(idx) == idx + 1

\* records.append(record)
RecordsAppend(recs, rec) == Append(recs, rec)

\* f.write(...) goes to the buffer of the file object; the buffer is
\* written out when it overflows (and when the file is closed)
BufOverflows(buf) == Len(buf) + 1 > BufRecords
BufAfterWrite(buf, rec) == IF BufOverflows(buf) THEN <<>> ELSE Append(buf, rec)
DiskAfterWrite(disk, buf, rec) ==
    IF BufOverflows(buf) THEN disk \o Append(buf, rec) ELSE disk

\* position of the subscriber after the sentinel: break out of the loop
SubAfterSentinelContinue == "get"
SubAfterSentinel == "done"

\* queue.task_done(): one unfinished task less; at zero, release join()
TaskDone ==
    /\ unfinished' = unfinished - 1
    /\ joinWoken' = (joinWoken \/ (unfinished - 1 = 0 /\ pubPc = "join_wait"))

\* one pass of the subscriber's while loop, from get() to task_done()
SubGet ==
    /\ running \in {"none", "sub"}
    /\ subPc = "get"
    /\ queue # <<>>
    /\ LET item == QGet(queue)[1] IN
       /\ queue' = QGet(queue)[2]
       /\ getLog' = Append(getLog, item)
       /\ IF item = None
          THEN /\ subPc' = SubAfterSentinel
               /\ running' = IF SubAfterSentinel = "done" THEN "none" ELSE "sub"
               /\ fileDisk' = fileDisk \o fileBuf
               /\ fileBuf' = <<>>
               /\ UNCHANGED <<arrival_index, records>>
          ELSE /\ arrival_index' = NextArrivalIndex(arrival_index)
               /\ records' = RecordsAppend(records, Record(item, arrival_index'))
               /\ fileBuf' = BufAfterWrite(fileBuf, Record(item, arrival_index'))
               /\ fileDisk' = DiskAfterWrite(fileDisk, fileBuf,
                                             Record(item, arrival_index'))
               /\ subPc' = "get"
               /\ running' = "sub"
    /\ TaskDone
    /\ UNCHANGED <<config, strategyVars, pairVars, report, produced, seq, dup_msg, pubPc, senderPc, putLog>>

\* await queue.get() on an empty queue: the subscriber suspends
SubSuspend ==
    /\ running = "sub"
    /\ subPc = "get"
    /\ queue = <<>>
    /\ running' = "none"
    /\ UNCHANGED <<config, strategyVars, pairVars, report, queue, unfinished, joinWoken, produced, seq,
                   dup_msg, pubPc, senderPc, subPc, arrival_index, records,
                   fileBuf, fileDisk, putLog, getLog>>

\* ---------------------------------------------------------------- system
Next ==
    \/ PubGenerate
    \/ PubPutMsg
    \/ PubDupCheck
    \/ PubPutDup
    \/ PubPutSentinel
    \/ MainJoin
    \/ MainJoinReturn
    \/ MainAwaitSub
    \/ MainSuspend
    \/ \E s \in 1..MaxMessages : SenderTimer(s)
    \/ \E s \in 1..MaxMessages : SenderPut(s)
    \/ SubGet
    \/ SubSuspend

Spec == Init /\ [][Next]_vars

TypeOK ==
    /\ unfinished \in 0..(2 * MaxMessages + 1)
    /\ pubPc \in {"sleep", "put_msg", "dup_check", "put_dup", "put_sentinel",
                  "join", "join_wait", "await_sub", "done"}
    /\ subPc \in {"get", "done"}
    /\ running \in {"none", "main", "sub"}

\* ---------------------------------------------------------------- hashing
\* hashlib.sha256(s.encode()).hexdigest(): an injective tag of the string
\* (digest collisions are not modelled)
Sha256Hex(s) == "sha256:" \o s

\* f"{row['message_id']}{row['sequence_id']}{row['partition_id']}"
CompositeKeyString(row) ==
    row.message_id \o ToString(row.sequence_id) \o ToString(row.partition_id)

\* compute_composite_hash(row)
CompositeHash(row) == Sha256Hex(CompositeKeyString(row))

\* the composite key (message_id, sequence_id, partition_id) of a record
CompositeKey(row) == <<row.message_id, row.sequence_id, row.partition_id>>

\* ---------------------------------------------------------------- analysis
Range(s) == {s[i] : i \in DOMAIN s}

\* number of positions of s holding x
Count(s, x) == Cardinality({i \in DOMAIN s : s[i] = x})

IsPrefix(s, t) == Len(s) <= Len(t) /\ SubSeq(t, 1, Len(s)) = s

\* the subsequence of s without the sentinel
RECURSIVE Messages(_)
Messages(s) ==
    IF s = <<>> THEN <<>>
    ELSE IF Head(s) = None THEN Messages(Tail(s))
    ELSE <<Head(s)>> \o Messages(Tail(s))

\* the publisher has returned (main is at or past queue.join())
PublisherReturned == pubPc \in {"join", "join_wait", "await_sub", "done"}

\* queue.join() has returned
JoinReturned == pubPc \in {"await_sub", "done"}

\* main has returned: the run is complete
RunComplete == pubPc = "done"

\* the slow-path sends the publisher has scheduled
Scheduled == {s \in DOMAIN senderPc : senderPc[s] # "none"}

\* ---------------------------------------------------------------- frames
\* A frame (pl.DataFrame) is a sequence of rows and a row is a function of
\* its column names. Where polars leaves the row order of a result
\* unspecified (unique and sort without maintain_order) the result is kept as
\* the set of its rows and every order is considered wherever order matters.

\* rows of a frame, and the frames a set of rows can be read back as
RECURSIVE Orderings(_)
Orderings(S) ==
    IF S = {} THEN {<<>>}
    ELSE UNION {{<<x>> \o o : o \in Orderings(S \ {x})} : x \in S}

\* df.with_columns(expr.alias(col)): the column is added, or replaced
WithColumn(row, col, val) ==
    [c \in DOMAIN row \cup {col} |-> IF c = col THEN val ELSE row[c]]

\* the columns of the records the subscriber writes, in sorted order
RecordColumns ==
    <<"arrival_index", "created_at", "event", "message_id", "partition_id",
      "sequence_id", "value", "zipcode">>

StringColumns == {"event", "message_id", "zipcode"}

\* a row without the columns a strategy added
Strip(row) == [c \in Range(RecordColumns) |-> row[c]]

\* json.dumps of one value: strings are quoted, numbers are printed
JsonValue(row, col) ==
    IF col \in StringColumns THEN "\"" \o row[col] \o "\""
    ELSE ToString(row[col])

\* json.dumps(row, sort_keys=True) over the columns cols (sorted)
RECURSIVE JsonItems(_, _)
JsonItems(row, cols) ==
    IF cols = <<>> THEN ""
    ELSE "\"" \o Head(cols) \o "\": " \o JsonValue(row, Head(cols))
         \o (IF Tail(cols) = <<>> THEN "" ELSE ", ")
         \o JsonItems(row, Tail(cols))

JsonDumps(row, cols) == "{" \o JsonItems(row, cols) \o "}"

\* compute_payload_hash(row): pl.struct(pl.all()) hands over every column
PayloadColumnsKeyOnly == <<"message_id", "partition_id", "sequence_id">>
PayloadColumns == RecordColumns

ComputePayloadHash(row) == Sha256Hex(JsonDumps(row, PayloadColumns))

\* pl.from_epoch(created_at, time_unit="s").dt.date(): days since the epoch
PartitionDate(row) == row.created_at \div 86400

\* with_columns(... .alias("composite_hash")) on every row
AddCompositeHash(df) ==
    [i \in DOMAIN df |-> WithColumn(df[i], "composite_hash", CompositeHash(df[i]))]

\* df.unique(subset=[col], keep="first"): per value of col the row at the
\* lowest position
UniqueKeepNone(df, col) ==
    {df[i] : i \in {i \in DOMAIN df :
                      \A j \in DOMAIN df : df[j][col] = df[i][col] => i = j}}
UniqueKeepFirst(df, col) ==
    {df[i] : i \in {i \in DOMAIN df :
                      \A j \in DOMAIN df : df[j][col] = df[i][col] => i <= j}}

\* df.unique(subset=[col], keep="last"): per value of col the row at the
\* highest position
UniqueKeepLast(df, col) ==
    {df[i] : i \in {i \in DOMAIN df :
                      \A j \in DOMAIN df : df[j][col] = df[i][col] => j <= i}}

InsertAt(s, k, x) == SubSeq(s, 1, k - 1) \o <<x>> \o SubSeq(s, k, Len(s))

\* df.sort(col): ascending by col; maintain_order is left at its default
\* False, so rows with equal col come out in any order
RECURSIVE SortOutcomes(_, _)
SortOutcomesUnsorted(df, col) == {df}
SortOutcomes(df, col) ==
    IF df = <<>> THEN {<<>>}
    ELSE LET n == Len(df)
             x == df[n]
         IN UNION {{InsertAt(s, k, x) :
                      k \in {k \in 1..(Len(s) + 1) :
                                /\ \A i \in 1..(k - 1) : s[i][col] <= x[col]
                                /\ \A i \in k..Len(s) : x[col] <= s[i][col]}} :
                   s \in SortOutcomes(SubSeq(df, 1, n - 1), col)}

\* the columns pl.struct(["message_id", "sequence_id", "partition_id"])
\* selects; a frame without one of them raises ColumnNotFoundError
EagerColumns == {"message_id", "sequence_id", "partition_id"}

\* add_hashes also reads created_at for partition_date
BronzeColumns == EagerColumns \cup {"created_at"}

\* the merge functions also sort by created_at
MergeColumns == EagerColumns \cup {"created_at"}

\* a frame has every column of cols
HasColumns(df, cols) == \A i \in DOMAIN df : cols \subseteq DOMAIN df[i]

\* the frame load_jsonl builds when no record of the file has the field c
DropColumn(row, c) == [f \in DOMAIN row \ {c} |-> row[f]]

\* a table after a strategy raised: the expression that raises is evaluated
\* before write_deltalake is reached
TableAfterRaiseTruncated(table) == {}
TableAfterRaise(table) == table

\* ---------------------------------------------------------------- strategies
\* eager_dedup(df): the returned frame
EagerDedup(df) == UniqueKeepFirst(AddCompositeHash(df), "composite_hash")

EagerMetrics(df, out) ==
    [strategy |-> "eager_dedup",
     initial_records |-> Len(df),
     final_records |-> Cardinality(out),
     dropped_duplicates |-> Len(df) - Cardinality(out)]

\* add_hashes(df): the returned frame, rows in input order
AddHashesDistinct(df) ==
    LET keep == {i \in DOMAIN df :
                   \A j \in DOMAIN df :
                       CompositeHash(df[j]) = CompositeHash(df[i]) => i <= j}
        f == CHOOSE g \in [1..Cardinality(keep) -> keep] :
                 \A a, b \in 1..Cardinality(keep) : a < b => g[a] < g[b]
    IN [k \in 1..Cardinality(keep) |->
          WithColumn(
            WithColumn(
              WithColumn(df[f[k]], "composite_hash", CompositeHash(df[f[k]])),
              "payload_hash", ComputePayloadHash(df[f[k]])),
            "partition_date", PartitionDate(df[f[k]]))]
AddHashes(df) ==
    [i \in DOMAIN df |->
       WithColumn(
         WithColumn(
           WithColumn(df[i], "composite_hash", CompositeHash(df[i])),
           "payload_hash", ComputePayloadHash(df[i])),
         "partition_date", PartitionDate(df[i]))]

BronzeMetrics(df, out) ==
    LET unique_composite == Cardinality({out[i].composite_hash : i \in DOMAIN out})
        unique_payload == Cardinality({out[i].payload_hash : i \in DOMAIN out})
    IN [strategy |-> "add_hashes",
        total_records |-> Len(df),
        unique_composite_keys |-> unique_composite,
        unique_payloads |-> unique_payload,
        potential_duplicates |-> Len(df) - unique_composite]

\* write_deltalake(bronze_path, bronze_df, mode="append")
WriteOverwrite(table, df) == df
WriteAppend(table, df) == table \o df

\* df.sort("created_at").unique(subset=["message_id"], keep="last"): the
\* frames it can return
MergeKeepLast(df) ==
    {UniqueKeepLast(s, "message_id") : s \in SortOutcomes(df, "created_at")}

\* merge_dedup_polars(df, table_path): the frames it can return
MergeDedupPolars(df) == MergeKeepLast(AddCompositeHash(df))

MergeMetrics(name, df, out) ==
    [strategy |-> name,
     initial_records |-> Len(df),
     final_records |-> Cardinality(out),
     merged_duplicates |-> Len(df) - Cardinality(out)]

\* pl.concat([existing_df, df])
ConcatNewOnly(existing_df, df) == df
Concat(existing_df, df) == existing_df \o df

\* merge_dedup_delta(df, table_path): the frames it can write, given the
\* rows of the table and whether the table exists
MergeDedupDelta(df, exists, table) ==
    IF exists
    THEN UNION {MergeKeepLast(Concat(existing_df, AddCompositeHash(df))) :
                  existing_df \in Orderings(table)}
    ELSE MergeKeepLast(AddCompositeHash(df))

\* ---------------------------------------------------------------- batches
\* rows a batch of the comparison is drawn from, as
\* <<<<message_id, sequence_id, partition_id>>, created_at, value>>: message
\* "a" at three times and under a second sequence_id and partition_id,
\* message "b" with two values
RowPool ==
    ({<<"a", 1, 12>>} \X {1, 2, 3} \X {100})
        \cup {<<<<"a", 11, 2>>, 2, 100>>}
        \cup ({<<"b", 1, 12>>} \X {1} \X {100, 200})

\* rows a batch of the upsert runs is drawn from
UpsertPool ==
    {<<<<"a", 1, 0>>, 1, 100>>, <<<<"a", 1, 0>>, 2, 100>>, <<<<"b", 1, 0>>, 1, 100>>}

\* load_jsonl: the record written at arrival_index i is row i of the frame
Row(r, i) ==
    [Record(Message(r[1][1], r[1][2], r[1][3], r[2]), i) EXCEPT !.value = r[3]]

Batches(pool, maxLen) ==
    UNION {{[i \in 1..n |-> Row(f[i], i)] : f \in [1..n -> pool]} :
             n \in 1..maxLen}

\* the sim is not part of a comparison: it stays in the state before its run
SimIdle ==
    /\ total_messages = 1
    /\ buffer = 1
    /\ partitions = 1
    /\ dup_prob = 0
    /\ slow_prob = 0
    /\ id_pool = {"a"}
    /\ SimStart

\* main() of run_comparison has loaded df; no table exists yet
StrategyStart(batches, first) ==
    /\ batch \in batches
    /\ stratPc = first
    /\ runs = 1
    /\ eager_out = {}
    /\ eager_metrics = NoMetrics
    /\ bronze_table = <<>>
    /\ bronze_metrics = NoMetrics
    /\ merge_out = {}
    /\ merge_metrics = NoMetrics
    /\ delta_exists = FALSE
    /\ delta_table = {}
    /\ delta_metrics = NoMetrics
    /\ submitted = {}
    /\ failed = {}

InitDedup == SimIdle /\ PairIdle /\ StrategyStart(Batches(RowPool, MaxBatch), "eager")

InitUpsert ==
    SimIdle /\ PairIdle /\ StrategyStart(Batches(UpsertPool, MaxUpsertBatch), "merge_delta")

\* ---------------------------------------------------------------- run_all_strategies
\* [1/4] eager_dedup(df.clone()), written with mode="overwrite"
RunEager ==
    /\ stratPc = "eager"
    /\ HasColumns(batch, EagerColumns)
    /\ LET deduped == EagerDedup(batch) IN
          /\ eager_out' = deduped
          /\ eager_metrics' = EagerMetrics(batch, deduped)
    /\ stratPc' = "bronze"
    /\ UNCHANGED <<simVars, pairVars, failed, batch, runs, bronze_table, bronze_metrics,
                   merge_out, merge_metrics, delta_exists, delta_table,
                   delta_metrics, submitted>>

\* [2/4] add_hashes(df.clone()), written with mode="append"
RunBronze ==
    /\ stratPc = "bronze"
    /\ HasColumns(batch, BronzeColumns)
    /\ LET df_with_hashes == AddHashes(batch) IN
          /\ bronze_table' = WriteAppend(bronze_table, df_with_hashes)
          /\ bronze_metrics' = BronzeMetrics(batch, df_with_hashes)
    /\ stratPc' = "merge_polars"
    /\ UNCHANGED <<simVars, pairVars, failed, batch, runs, eager_out, eager_metrics,
                   merge_out, merge_metrics, delta_exists, delta_table,
                   delta_metrics, submitted>>

\* [3/4] merge_dedup_polars(df.clone(), path), written with mode="overwrite"
RunMergePolars ==
    /\ stratPc = "merge_polars"
    /\ HasColumns(batch, MergeColumns)
    /\ \E deduped \in MergeDedupPolars(batch) :
          /\ merge_out' = deduped
          /\ merge_metrics' = MergeMetrics("merge_dedup_polars", batch, deduped)
    /\ stratPc' = "merge_delta"
    /\ UNCHANGED <<simVars, pairVars, failed, batch, runs, eager_out, eager_metrics,
                   bronze_table, bronze_metrics, delta_exists, delta_table,
                   delta_metrics, submitted>>

\* [4/4] merge_dedup_delta(df.clone(), path): reads the table if it exists
\* and overwrites it with the deduplicated union
RunMergeDelta ==
    /\ stratPc = "merge_delta"
    /\ HasColumns(batch, MergeColumns)
    /\ \E deduped \in MergeDedupDelta(batch, delta_exists, delta_table) :
          /\ delta_table' = deduped
          /\ delta_metrics' = MergeMetrics("merge_dedup_delta", batch, deduped)
    /\ delta_exists' = TRUE
    /\ submitted' = submitted \cup
          {<<batch[i].message_id, batch[i].created_at>> : i \in DOMAIN batch}
    /\ stratPc' = "done"
    /\ UNCHANGED <<simVars, pairVars, failed, batch, runs, eager_out, eager_metrics,
                   bronze_table, bronze_metrics, merge_out, merge_metrics>>

\* the comparison is started again on the same input file
Rerun ==
    /\ stratPc = "done"
    /\ runs < MaxRuns
    /\ runs' = runs + 1
    /\ stratPc' = "eager"
    /\ UNCHANGED <<simVars, pairVars, failed, batch, eager_out, eager_metrics, bronze_table,
                   bronze_metrics, merge_out, merge_metrics, delta_exists,
                   delta_table, delta_metrics, submitted>>

NextDedup ==
    \/ RunEager
    \/ RunBronze
    \/ RunMergePolars
    \/ RunMergeDelta
    \/ Rerun

SpecDedup == InitDedup /\ [][NextDedup]_vars

\* merge_dedup_delta is called again with another batch
NewBatch ==
    /\ stratPc = "done"
    /\ runs < MaxRuns
    /\ batch' \in Batches(UpsertPool, MaxUpsertBatch)
    /\ runs' = runs + 1
    /\ stratPc' = "merge_delta"
    /\ UNCHANGED <<simVars, pairVars, failed, eager_out, eager_metrics, bronze_table,
                   bronze_metrics, merge_out, merge_metrics, delta_exists,
                   delta_table, delta_metrics, submitted>>

NextUpsert ==
    \/ RunMergeDelta
    \/ NewBatch

SpecUpsert == InitUpsert /\ [][NextUpsert]_vars


\* ---------------------------------------------------------------- frames without a column
\* rows of the files whose records may lack a field
FailPool == {<<<<"a", 1, 0>>, 1, 100>>, <<<<"b", 1, 0>>, 1, 100>>}

\* one-record files: complete, or without one of the columns a strategy reads
FailBatches ==
    {<<Row(r, 1)>> : r \in FailPool}
        \cup {<<DropColumn(Row(r, 1), c)>> : r \in FailPool, c \in MergeColumns}

InitFail == SimIdle /\ PairIdle /\ StrategyStart(FailBatches, "eager")

\* [1/4] eager_dedup raises: the exception leaves run_all_strategies and
\* main(), which catch nothing
EagerRaises ==
    /\ stratPc = "eager"
    /\ ~HasColumns(batch, EagerColumns)
    /\ failed' = failed \cup {"eager"}
    /\ eager_out' = TableAfterRaise(eager_out)
    /\ stratPc' = "aborted"
    /\ UNCHANGED <<simVars, pairVars, batch, runs, eager_metrics, bronze_table,
                   bronze_metrics, merge_out, merge_metrics, delta_exists,
                   delta_table, delta_metrics, submitted>>

\* [2/4] add_hashes raises
BronzeRaises ==
    /\ stratPc = "bronze"
    /\ ~HasColumns(batch, BronzeColumns)
    /\ failed' = failed \cup {"bronze"}
    /\ stratPc' = "aborted"
    /\ UNCHANGED <<simVars, pairVars, batch, runs, eager_out, eager_metrics,
                   bronze_table, bronze_metrics, merge_out, merge_metrics,
                   delta_exists, delta_table, delta_metrics, submitted>>

\* [3/4] merge_dedup_polars raises
MergePolarsRaises ==
    /\ stratPc = "merge_polars"
    /\ ~HasColumns(batch, MergeColumns)
    /\ failed' = failed \cup {"merge_polars"}
    /\ merge_out' = TableAfterRaise(merge_out)
    /\ stratPc' = "aborted"
    /\ UNCHANGED <<simVars, pairVars, batch, runs, eager_out, eager_metrics,
                   bronze_table, bronze_metrics, merge_metrics, delta_exists,
                   delta_table, delta_metrics, submitted>>

\* [4/4] merge_dedup_delta raises, in with_columns, pl.concat or sort
MergeDeltaRaises ==
    /\ stratPc = "merge_delta"
    /\ ~HasColumns(batch, MergeColumns)
    /\ failed' = failed \cup {"merge_delta"}
    /\ delta_table' = TableAfterRaise(delta_table)
    /\ stratPc' = "aborted"
    /\ UNCHANGED <<simVars, pairVars, batch, runs, eager_out, eager_metrics,
                   bronze_table, bronze_metrics, merge_out, merge_metrics,
                   delta_exists, delta_metrics, submitted>>

\* the comparison is started on another input file
LoadFile ==
    /\ stratPc \in {"done", "aborted"}
    /\ runs < MaxRuns
    /\ batch' \in FailBatches
    /\ runs' = runs + 1
    /\ failed' = {}
    /\ stratPc' = "eager"
    /\ UNCHANGED <<simVars, pairVars, eager_out, eager_metrics, bronze_table,
                   bronze_metrics, merge_out, merge_metrics, delta_exists,
                   delta_table, delta_metrics, submitted>>

\* a merge function is called on its own with the frame of another file
CallMerge ==
    /\ stratPc \in {"done", "aborted"}
    /\ runs < MaxRuns
    /\ batch' \in FailBatches
    /\ runs' = runs + 1
    /\ failed' = {}
    /\ stratPc' \in {"merge_polars", "merge_delta"}
    /\ UNCHANGED <<simVars, pairVars, eager_out, eager_metrics, bronze_table,
                   bronze_metrics, merge_out, merge_metrics, delta_exists,
                   delta_table, delta_metrics, submitted>>

NextFail ==
    \/ RunEager
    \/ EagerRaises
    \/ RunBronze
    \/ BronzeRaises
    \/ RunMergePolars
    \/ MergePolarsRaises
    \/ RunMergeDelta
    \/ MergeDeltaRaises
    \/ LoadFile
    \/ CallMerge

SpecFail == InitFail /\ [][NextFail]_vars

\* ---------------------------------------------------------------- analyze alone
\* lists of length 0..n over the set S
ListsUpTo(S, n) == UNION {[1..k -> S] : k \in 0..n}

\* produced and received lists analyze() can be handed: any sequence_ids in
\* any order, in two partitions
AnalyzeMessages ==
    {Message("a", s, pid, 1) : s \in 1..3, pid \in 0..1}

ReceivedLists ==
    {[k \in DOMAIN l |-> Record(l[k], k)] :
        l \in ListsUpTo(AnalyzeMessages, MaxReceived)}

ProducedLists ==
    ListsUpTo({m \in AnalyzeMessages : m.partition_id = 0}, MaxMessages)

\* main() is about to call analyze(produced, received)
InitAnalyze ==
    /\ StrategyIdle
    /\ PairIdle
    /\ total_messages = 1
    /\ buffer = 1
    /\ partitions = 2
    /\ dup_prob = 0
    /\ slow_prob = 0
    /\ id_pool = {"a"}
    /\ queue = <<>>
    /\ unfinished = 0
    /\ joinWoken = TRUE
    /\ produced \in ProducedLists
    /\ seq = 1
    /\ dup_msg = None
    /\ pubPc = "await_sub"
    /\ senderPc = [s \in 1..MaxMessages |-> "none"]
    /\ subPc = "done"
    /\ records \in ReceivedLists
    /\ arrival_index = Len(records)
    /\ fileBuf = <<>>
    /\ fileDisk = records
    /\ running = "none"
    /\ putLog = <<>>
    /\ getLog = <<>>
    /\ report = NoReport

NextAnalyze == MainAwaitSub

SpecAnalyze == InitAnalyze /\ [][NextAnalyze]_vars

\* ---------------------------------------------------------------- two runs, one seed
\* The sim is run twice with the same --seed and --messages, one partition,
\* --slow-prob 0 and a --dup-prob per run. random is a stream of draws fixed
\* by the seed once random.seed() is called; the stream is an arbitrary
\* sequence over PairDraws, disclosed draw by draw as the first run that
\* reaches a position reads it. Without the slow path the subscriber receives
\* the messages in the order the publisher puts them.

\* values of args.seed: not given, 0, 1
PairSeeds == {"None", "0", "1"}

\* `if args.seed:` is false for None and for 0
SeedApplied(seed) == seed \notin {"None", "0"}

\* outcomes of one draw, in percent of the range drawn from
PairDraws == {0, 99}

\* --dup-prob of the first and of the second run, in percent
PairProbs == {<<50, 50>>, <<50, 100>>, <<100, 100>>}

PairConfigs ==
    {c \in [seed : PairSeeds, total_messages : 1..MaxPairMessages,
            dup_prob : PairProbs] :
        SeedApplied(c.seed) \/ c.total_messages <= MaxUnseededMessages}

\* the first run is about to enter the publisher loop
PairStart ==
    [run |-> 1, pc |-> "loop", seq |-> 1, pos |-> 1, clock |-> 1,
     streams |-> <<(<<>>), (<<>>)>>,
     produced |-> <<(<<>>), (<<>>)>>,
     received |-> <<(<<>>), (<<>>)>>]

InitPair ==
    /\ SimIdle
    /\ StrategyIdle
    /\ pairCfg \in PairConfigs
    /\ pairRun = PairStart

\* the stream a run draws from: the seed's stream when the seed is applied,
\* else a stream of its own (seeded from the system)
StreamOf(run) == IF SeedApplied(pairCfg.seed) THEN 1 ELSE run

\* the draw at position pos: the disclosed one, else the fresh outcome d
DrawAt(stream, pos, d) == IF pos <= Len(stream) THEN stream[pos] ELSE d

Disclose(stream, pos, d) == IF pos <= Len(stream) THEN stream ELSE Append(stream, d)

\* random_id(): the id the draws of the pass spell
RandomId(d) == IF d = 0 THEN "a" ELSE "b"

\* random.choice(produced): the draw scaled to an index of the list
ChoiceIndex(d, n) == 1 + (d * n) \div 100

\* the subscriber's records for the messages put, continuing arrival_index
RECURSIVE Receive(_, _)
Receive(received, puts) ==
    IF puts = <<>> THEN received
    ELSE Receive(Append(received, Record(Head(puts), Len(received) + 1)), Tail(puts))

\* one pass of the publisher loop: the draws for delay, partition, id, value,
\* zipcode and slow path (one position), the draw for the duplicate, and a
\* draw for random.choice only when a duplicate is produced
PairPass ==
    /\ pairRun # <<>>
    /\ pairRun.pc = "loop"
    /\ pairRun.seq <= pairCfg.total_messages
    /\ \E d1, d2, d3 \in PairDraws :
          LET r == pairRun.run
              si == StreamOf(r)
              pos == pairRun.pos
              s0 == pairRun.streams[si]
              s1 == Disclose(s0, pos, d1)
              s2 == Disclose(s1, pos + 1, d2)
              dup == DrawAt(s1, pos + 1, d2) < pairCfg.dup_prob[r]
              s3 == IF dup THEN Disclose(s2, pos + 2, d3) ELSE s2
              msg == Message(RandomId(DrawAt(s0, pos, d1)), pairRun.seq, 0,
                             pairRun.clock)
              prod == Append(pairRun.produced[r], msg)
              dupMsg == RandomChoice(prod,
                           ChoiceIndex(DrawAt(s2, pos + 2, d3), Len(prod)))
              puts == IF dup THEN <<msg, dupMsg>> ELSE <<msg>>
          IN pairRun' =
               [pairRun EXCEPT
                  !.seq = @ + 1,
                  !.pos = IF dup THEN pos + 3 ELSE pos + 2,
                  !.clock = @ + 1,
                  !.streams[si] = s3,
                  !.produced[r] = prod,
                  !.received[r] = Receive(@, puts)]
    /\ UNCHANGED <<simVars, strategyVars, pairCfg>>

\* the first run has ended; the program is started again: parse_args seeds
\* random again if the seed is applied, and the loop starts at 1
PairSecondRun ==
    /\ pairRun # <<>>
    /\ pairRun.pc = "loop"
    /\ pairRun.run = 1
    /\ pairRun.seq > pairCfg.total_messages
    /\ pairRun' = [pairRun EXCEPT !.run = 2, !.seq = 1, !.pos = 1,
                                  !.clock = @ + 1]
    /\ UNCHANGED <<simVars, strategyVars, pairCfg>>

\* the second run has ended
PairEnd ==
    /\ pairRun # <<>>
    /\ pairRun.pc = "loop"
    /\ pairRun.run = 2
    /\ pairRun.seq > pairCfg.total_messages
    /\ pairRun' = [pairRun EXCEPT !.pc = "done"]
    /\ UNCHANGED <<simVars, strategyVars, pairCfg>>

NextPair ==
    \/ PairPass
    \/ PairSecondRun
    \/ PairEnd

SpecPair == InitPair /\ [][NextPair]_vars

\* ---------------------------------------------------------------- claims

\* C1: no loss. When the run completes, every produced sequence_id appears
\* in at least one received record (missing is empty).
C1_NoLoss == RunComplete => Missing(produced, records) = {}

\* C2: the drain barrier does not return while a scheduled slow-path send has
\* not been enqueued, dequeued and acknowledged.
C2_JoinWaitsForSlowSends ==
    JoinReturned =>
        /\ \A s \in Scheduled :
              senderPc[s] = "done" /\ produced[s] \in Range(getLog)
        /\ unfinished = 0

\* C3: no reachable state leaves the run blocked forever: in every state
\* either main has returned or some task can take a step.
C3_RunsToCompletion == RunComplete \/ ENABLED Next

\* C4: the sentinel is enqueued exactly once, after the N-th message has been
\* generated; the subscriber gets it exactly once, acknowledges it, and gets
\* nothing afterwards.
C4_SentinelOnce ==
    /\ Count(putLog, None) = (IF PublisherReturned THEN 1 ELSE 0)
    /\ None \in Range(putLog) => Len(produced) = total_messages
    /\ Count(getLog, None) = (IF subPc = "done" THEN 1 ELSE 0)
    /\ None \in Range(getLog) => getLog[Len(getLog)] = None
    /\ unfinished = Len(putLog) - Len(getLog)
    /\ ~(ENABLED Next) => PublisherReturned /\ subPc = "done"

C4_SentinelObserved ==
    /\ RunComplete
    /\ getLog[Len(getLog)] = None
    /\ Len(putLog) > Len(getLog)

\* C5: once the sentinel has been enqueued no message is enqueued afterwards:
\* the sentinel, when present, is the last item put.
C5_NothingAfterSentinel ==
    None \in Range(putLog) => putLog[Len(putLog)] = None

\* C6: the channel never reorders: what the subscriber has dequeued is a
\* prefix of the items in the order their puts completed, and the received
\* records are those dequeued messages in the same order.
C6_Fifo ==
    /\ IsPrefix(getLog, putLog)
    /\ Len(records) = Len(Messages(getLog))
    /\ \A k \in DOMAIN records :
          records[k].sequence_id = Messages(getLog)[k].sequence_id

C6_ReorderedArrival ==
    /\ RunComplete
    /\ \E j, k \in DOMAIN records :
          j < k /\ records[j].sequence_id > records[k].sequence_id
    /\ \E j, k \in DOMAIN records :
          j < k /\ records[j].sequence_id = records[k].sequence_id

\* C7 (as stated): for any configured capacity the channel never holds more
\* items than the capacity.
C7_CapacityAnyBuffer == Len(queue) <= buffer

\* C7 (amended): for any positive configured capacity the channel never holds
\* more items than the capacity, so a put issued on a full channel completes
\* only after the subscriber removed an item.
C7_Backpressure == buffer > 0 => Len(queue) <= buffer

C7_PutterSuspended ==
    /\ buffer > 0
    /\ Len(queue) = buffer
    /\ running = "none"
    /\ pubPc \in {"put_msg", "put_dup", "put_sentinel"}
    /\ \E s \in Scheduled : senderPc[s] = "put"

\* C8: the k-th message dequeued is stamped arrival_index = k; the sentinel
\* consumes no index; the records list holds one record per dequeued message
\* in that order.
C8_ArrivalIndexing ==
    /\ arrival_index = Len(records)
    /\ Len(records) = Len(Messages(getLog))
    /\ \A k \in DOMAIN records :
          records[k] = Record(Messages(getLog)[k], k)

C8_IndexedRun ==
    /\ subPc = "done"
    /\ Len(records) >= 3
    /\ records[3].arrival_index = 3

\* C9: between two dequeues the output file contains exactly the records
\* received so far, in arrival order.
C9_SinkDurable == fileDisk = records

\* C10: when the publisher returns, produced holds exactly N entries with
\* sequence_ids 1..N in order; duplicates and slow-path sends add no entry.
C10_ProducedNumbering ==
    /\ \A i \in DOMAIN produced : produced[i].sequence_id = i
    /\ Len(produced) <= total_messages
    /\ PublisherReturned => Len(produced) = total_messages

C10_PublisherReturnedWithDupAndSlow ==
    /\ PublisherReturned
    /\ Len(produced) = 2
    /\ Scheduled # {}
    /\ Len(putLog) > Len(produced)

\* C11: every dequeued message is field-for-field equal to the produced
\* entry with the same sequence_id, so received records with the same
\* sequence_id have the same composite key and the same composite-key hash.
C11_DuplicatesAreSameValue ==
    /\ \A m \in Range(Messages(getLog)) :
          m.sequence_id \in DOMAIN produced /\ m = produced[m.sequence_id]
    /\ \A k \in DOMAIN records :
          /\ records[k].sequence_id \in DOMAIN produced
          /\ LET p == produced[records[k].sequence_id] IN
                /\ records[k].message_id = p.message_id
                /\ records[k].partition_id = p.partition_id
                /\ records[k].created_at = p.created_at
                /\ records[k].value = p.value
                /\ records[k].zipcode = p.zipcode
    /\ \A j, k \in DOMAIN records :
          records[j].sequence_id = records[k].sequence_id =>
              /\ CompositeKey(records[j]) = CompositeKey(records[k])
              /\ CompositeHash(records[j]) = CompositeHash(records[k])

C11_DuplicateReceived ==
    /\ RunComplete
    /\ \E j, k \in DOMAIN records :
          j < k /\ records[j].sequence_id = records[k].sequence_id

\* C12: a duplicate re-sends a message that has already been emitted: when
\* the publisher is about to enqueue dup_msg, dup_msg is an entry of the
\* history and has been enqueued at least once before.
C12_DupWasEmitted ==
    pubPc = "put_dup" =>
        /\ dup_msg \in Range(produced)
        /\ dup_msg \in Range(putLog)

\* eager_dedup has run on the current batch in this or an earlier run
EagerHasRun == eager_metrics # NoMetrics

\* C13: Eager. No two output records share a composite key, every composite
\* key of the batch occurs in the output, and the output record of a key is
\* the batch record with that key at the lowest position.
C13_EagerFirstPerKey ==
    EagerHasRun =>
        /\ \A r1, r2 \in eager_out :
              CompositeKey(r1) = CompositeKey(r2) => r1 = r2
        /\ \A i \in DOMAIN batch :
              \E r \in eager_out : CompositeKey(r) = CompositeKey(batch[i])
        /\ \A r \in eager_out :
              \E i \in DOMAIN batch :
                  /\ Strip(r) = batch[i]
                  /\ \A j \in DOMAIN batch :
                        CompositeKey(batch[j]) = CompositeKey(r) => i <= j

\* merge_dedup_polars has run on the current batch in this or an earlier run
MergeHasRun == merge_metrics # NoMetrics

\* C14: Merge (last-write-wins). The output holds exactly one record per
\* message_id of the batch, an input record whose created_at is the greatest
\* among the batch records with that message_id, whatever their sequence_id
\* and partition_id.
C14_MergeLastWriteWins ==
    MergeHasRun =>
        /\ {r.message_id : r \in merge_out}
             = {batch[i].message_id : i \in DOMAIN batch}
        /\ \A r1, r2 \in merge_out : r1.message_id = r2.message_id => r1 = r2
        /\ \A r \in merge_out :
              /\ \E i \in DOMAIN batch : Strip(r) = batch[i]
              /\ \A i \in DOMAIN batch :
                    batch[i].message_id = r.message_id =>
                        batch[i].created_at <= r.created_at

\* three records of one message_id with created_at 1, 3, 2 in input order,
\* the last under another sequence_id and partition_id: the 3 survives alone
C14_OneThreeTwo ==
    /\ MergeHasRun
    /\ Len(batch) = 3
    /\ \A i \in 1..3 : batch[i].message_id = "a"
    /\ <<batch[1].created_at, batch[2].created_at, batch[3].created_at>>
         = <<1, 3, 2>>
    /\ CompositeKey(batch[3]) # CompositeKey(batch[2])
    /\ \E r \in merge_out : merge_out = {r} /\ Strip(r) = batch[2]

\* the position in the batch of the last record that ties with r on
\* message_id and created_at
LastTied(r) ==
    CHOOSE k \in DOMAIN batch :
        /\ batch[k].message_id = r.message_id
        /\ batch[k].created_at = r.created_at
        /\ \A i \in DOMAIN batch :
              (batch[i].message_id = r.message_id
                  /\ batch[i].created_at = r.created_at) => i <= k

\* C15: Merge tie-breaking. Among the batch records that share a message_id
\* and its greatest created_at, Merge keeps the one that is last in the batch
\* (and so returns the same result on every run).
C15_MergeTieLastInBatch ==
    MergeHasRun => \A r \in merge_out : Strip(r) = batch[LastTied(r)]

\* the persisted table is the Merge of everything submitted so far
TableIsMergeOfSubmitted ==
    /\ {r.message_id : r \in delta_table} = {p[1] : p \in submitted}
    /\ \A r1, r2 \in delta_table : r1.message_id = r2.message_id => r1 = r2
    /\ \A r \in delta_table :
          /\ <<r.message_id, r.created_at>> \in submitted
          /\ \A p \in submitted : p[1] = r.message_id => p[2] <= r.created_at

\* a persisted record stays, or gives way to a record of its message_id that
\* is not older
ReplacedOnlyByNotOlder ==
    \A r \in delta_table :
        \/ r \in delta_table'
        \/ \E r2 \in delta_table' :
              r2.message_id = r.message_id /\ r.created_at <= r2.created_at

\* C16: Merge-upsert across runs, from an absent table. After every run the
\* table holds one record per message_id ever submitted, with the greatest
\* created_at submitted for it; a persisted record is replaced only by a
\* record of the same message_id with equal or greater created_at.
C16_UpsertAcrossRuns ==
    /\ [](delta_exists => TableIsMergeOfSubmitted)
    /\ [][ReplacedOnlyByNotOlder]_vars

\* a second run whose batch holds only an older record of "a" has left the
\* newer "a" and the untouched "b" of the first run in the table
C16_OlderBatchAfterNewer ==
    /\ runs = 2
    /\ stratPc = "done"
    /\ \A i \in DOMAIN batch :
          batch[i].message_id = "a" /\ batch[i].created_at = 1
    /\ \E r \in delta_table : r.message_id = "a" /\ r.created_at = 2
    /\ \E r \in delta_table : r.message_id = "b"

\* Eager applied to its own output, read back in any row order
EagerIdempotent ==
    EagerHasRun => \A df \in Orderings(eager_out) : EagerDedup(df) = eager_out

\* Merge applied to its own output, read back in any row order
MergeIdempotent ==
    MergeHasRun =>
        \A df \in Orderings(merge_out) : MergeDedupPolars(df) = {merge_out}

\* a Merge-upsert run on the batch of the run before it (every run of the
\* comparison is on the same batch)
UpsertRerunKeepsTable ==
    (stratPc = "merge_delta" /\ delta_exists) => delta_table' = delta_table

\* C17: idempotence. Eager of an Eager output and Merge of a Merge output
\* return the same record set, and a second Merge-upsert run with the same
\* batch leaves the persisted set unchanged.
C17_Idempotence ==
    /\ [](EagerIdempotent /\ MergeIdempotent)
    /\ [][UpsertRerunKeepsTable]_vars

\* number of times add_hashes has run and its frame has been appended
BronzeRuns == IF stratPc \in {"eager", "bronze"} THEN runs - 1 ELSE runs

\* C18: Bronze applied again on the same batch. After k runs the append-only
\* table holds k * len(batch) records, every run's records in batch order and
\* none removed or overwritten, and a record carries the same composite_hash
\* and payload_hash in every run.
C18_BronzeTwiceDoubles ==
    LET n == Len(batch) IN
    /\ Len(bronze_table) = BronzeRuns * n
    /\ \A i \in DOMAIN bronze_table :
          Strip(bronze_table[i]) = batch[((i - 1) % n) + 1]
    /\ \A i, j \in DOMAIN bronze_table :
          (i - 1) % n = (j - 1) % n =>
              /\ bronze_table[i].composite_hash = bronze_table[j].composite_hash
              /\ bronze_table[i].payload_hash = bronze_table[j].payload_hash

\* the second run has appended a batch of two or more records
C18_SecondBronzeRun ==
    /\ BronzeRuns = 2
    /\ Len(batch) >= 2
    /\ Len(bronze_table) = 2 * Len(batch)

\* every row of out is a record of the batch
FromBatch(out) == \A r \in out : \E i \in DOMAIN batch : Strip(r) = batch[i]

\* C19: output size. Eager and Merge return at most len(batch) records, each
\* of them a record of the batch; Bronze returns len(batch) records and
\* discards no record of the batch.
C19_OutputSize ==
    /\ EagerHasRun =>
          /\ Cardinality(eager_out) <= Len(batch)
          /\ eager_metrics.final_records <= eager_metrics.initial_records
          /\ FromBatch(eager_out)
    /\ MergeHasRun =>
          /\ Cardinality(merge_out) <= Len(batch)
          /\ merge_metrics.final_records <= merge_metrics.initial_records
          /\ FromBatch(merge_out)
    /\ Len(bronze_table) = BronzeRuns * Len(batch)
    /\ BronzeRuns >= 1 =>
          \A i \in DOMAIN batch :
              \E k \in DOMAIN bronze_table : Strip(bronze_table[k]) = batch[i]

\* all three have run once on a batch of which Eager and Merge dropped records
C19_DroppedByEagerAndMerge ==
    /\ runs = 1
    /\ stratPc = "merge_delta"
    /\ Cardinality(eager_out) < Len(batch)
    /\ Cardinality(merge_out) < Len(batch)
    /\ Len(bronze_table) = Len(batch)

\* C20: Bronze hashing. Records of the Bronze table with the same composite
\* key have the same composite_hash, and records that differ in any field
\* have different payload_hash; every record of the batch is kept.
C20_BronzeHashes ==
    /\ BronzeRuns >= 1 =>
          \A i \in DOMAIN batch : Strip(bronze_table[i]) = batch[i]
    /\ \A i, j \in DOMAIN bronze_table :
          LET ri == bronze_table[i]
              rj == bronze_table[j]
          IN /\ CompositeKey(ri) = CompositeKey(rj) =>
                    ri.composite_hash = rj.composite_hash
             /\ Strip(ri) # Strip(rj) => ri.payload_hash # rj.payload_hash

\* two records with the same composite key and different value are both in
\* the table, with one composite_hash and two payload_hash values
C20_SameKeyOtherValue ==
    \E i, j \in DOMAIN bronze_table :
        LET ri == bronze_table[i]
            rj == bronze_table[j]
        IN /\ CompositeKey(ri) = CompositeKey(rj)
           /\ ri.value # rj.value
           /\ ri.composite_hash = rj.composite_hash
           /\ ri.payload_hash # rj.payload_hash

\* C28: composite-key identity is exact. Two records of a batch get the same
\* key string, and so the same composite hash, only if their (message_id,
\* sequence_id, partition_id) triples are equal; Eager then keeps a record
\* of every composite key.
C28_KeyStringExact ==
    EagerHasRun =>
        /\ \A i, j \in DOMAIN batch :
              CompositeKeyString(batch[i]) = CompositeKeyString(batch[j]) =>
                  CompositeKey(batch[i]) = CompositeKey(batch[j])
        /\ {CompositeKey(r) : r \in eager_out}
             = {CompositeKey(batch[i]) : i \in DOMAIN batch}

\* the metrics of one strategy run: count = initial - final, within 0..initial
MetricsConsistent(m, count) ==
    /\ count = m.initial_records - m.final_records
    /\ 0 <= count
    /\ count <= m.initial_records

\* C29: metrics consistency. For every run of Eager, Merge and Merge-upsert
\* the dropped-or-merged count is initial_records - final_records and lies in
\* 0..initial_records, initial_records being the size of the batch, also when
\* Merge-upsert runs against a non-empty table.
C29_MetricsConsistent ==
    /\ eager_metrics # NoMetrics =>
          /\ eager_metrics.initial_records = Len(batch)
          /\ MetricsConsistent(eager_metrics, eager_metrics.dropped_duplicates)
    /\ merge_metrics # NoMetrics =>
          /\ merge_metrics.initial_records = Len(batch)
          /\ MetricsConsistent(merge_metrics, merge_metrics.merged_duplicates)
    /\ delta_metrics # NoMetrics =>
          /\ stratPc = "done" => delta_metrics.initial_records = Len(batch)
          /\ MetricsConsistent(delta_metrics, delta_metrics.merged_duplicates)

\* s is in non-decreasing order
NonDecreasing(s) == \A i, j \in DOMAIN s : i < j => s[i] <= s[j]

\* C30: reordering comes only from the slow path. With slow_prob = 0 the
\* sequence_ids received within each partition are in non-decreasing order
\* and the analyzer reports no partition as out-of-order; with dup_prob = 0 as
\* well the received sequence_ids are 1..N in order, arrival_index equal to
\* sequence_id.
C30_OrderWithoutSlowPath ==
    slow_prob = 0 =>
        /\ \A pid \in 0..(partitions - 1) :
              NonDecreasing(ByPartition(records, pid))
        /\ RunComplete => report.out_of_order = {}
        /\ (RunComplete /\ dup_prob = 0) =>
              /\ ReceivedSeqIds(records) = [i \in 1..total_messages |-> i]
              /\ \A k \in DOMAIN records :
                    records[k].arrival_index = records[k].sequence_id

\* a completed run with dup_prob = 1.0 and slow_prob = 0.0
FullDuplicationRun == RunComplete /\ dup_prob = 100 /\ slow_prob = 0

\* C24: full-duplication scenario, counts. With one partition the received
\* count exceeds total_messages, missing is empty, and Eager applied to the
\* received batch yields total_messages records, one per sequence_id.
C24_FullDuplicationCounts ==
    (FullDuplicationRun /\ partitions = 1) =>
        /\ Len(records) > total_messages
        /\ report.missing = {}
        /\ Cardinality(EagerDedup(records)) = total_messages
        /\ {r.sequence_id : r \in EagerDedup(records)} = 1..total_messages

\* such a run of two messages, both duplicates drawn
C24_FullDuplicationOfTwo ==
    /\ FullDuplicationRun
    /\ partitions = 1
    /\ total_messages = 2
    /\ Len(records) = 4

\* C25: full-duplication scenario, coverage. Every sequence_id in
\* 1..total_messages occurs in at least two received records.
C25_EveryMessageDuplicated ==
    FullDuplicationRun =>
        \A s \in 1..total_messages :
            Cardinality({k \in DOMAIN records : records[k].sequence_id = s}) >= 2

\* C23: analyzer report. missing is the set of produced sequence_ids that
\* occur in no received record, duplicates the set of sequence_ids that occur
\* in more than one received record, and a partition is reported
\* out-of-order exactly when a larger sequence_id precedes a smaller one in
\* its received list; analyze changes neither list.
C23_AnalyzerReport ==
    /\ [](report.printed =>
            /\ report.missing =
                 {s \in {produced[i].sequence_id : i \in DOMAIN produced} :
                     \A k \in DOMAIN records : records[k].sequence_id # s}
            /\ report.dupes =
                 {s \in {records[k].sequence_id : k \in DOMAIN records} :
                     \E j, k \in DOMAIN records :
                         /\ j # k
                         /\ records[j].sequence_id = s
                         /\ records[k].sequence_id = s}
            /\ report.out_of_order =
                 {pid \in {records[k].partition_id : k \in DOMAIN records} :
                     \E j, k \in DOMAIN records :
                         /\ j < k
                         /\ records[j].partition_id = pid
                         /\ records[k].partition_id = pid
                         /\ records[j].sequence_id > records[k].sequence_id})
    /\ [][produced' = produced /\ records' = records]_vars

\* a report with a missing and a duplicate sequence_id, one partition
\* out-of-order and another in order
C23_MixedReport ==
    /\ report.printed
    /\ report.missing # {}
    /\ report.dupes # {}
    /\ report.out_of_order # {}
    /\ \E k \in DOMAIN records :
          records[k].partition_id \notin report.out_of_order

\* C21: fail-fast without partial output. A strategy run on a batch that
\* lacks a field of its identity key or sort key (message_id, sequence_id or
\* partition_id for the composite key; message_id or created_at for Merge)
\* ends in an error, produces no output and metrics, and leaves the table
\* it persisted before unchanged.
C21_FailFast ==
    [][/\ (stratPc = "eager" /\ ~HasColumns(batch, EagerColumns)) =>
             /\ "eager" \in failed'
             /\ eager_out' = eager_out
             /\ eager_metrics' = eager_metrics
       /\ (stratPc = "merge_polars"
             /\ ~HasColumns(batch, {"message_id", "created_at"})) =>
             /\ "merge_polars" \in failed'
             /\ merge_out' = merge_out
             /\ merge_metrics' = merge_metrics
       /\ (stratPc = "merge_delta"
             /\ ~HasColumns(batch, {"message_id", "created_at"})) =>
             /\ "merge_delta" \in failed'
             /\ delta_table' = delta_table
             /\ delta_exists' = delta_exists
             /\ delta_metrics' = delta_metrics]_vars

\* merge_dedup_delta has raised on a batch without created_at while a table
\* persisted by an earlier run exists
C21_RaisedWithTable ==
    /\ "merge_delta" \in failed
    /\ stratPc = "aborted"
    /\ ~HasColumns(batch, {"created_at"})
    /\ delta_exists
    /\ delta_table # {}

\* C22: error isolation between strategies. When the strategies are run on
\* one batch and one of them fails, every other strategy has still run on
\* the batch and produced its output and metrics (stated for the first file,
\* where metrics exist only if the strategy ran on it).
C22_OthersStillRun ==
    (runs = 1 /\ stratPc = "aborted" /\ failed # {}) =>
        /\ "eager" \notin failed => eager_metrics # NoMetrics
        /\ "bronze" \notin failed => bronze_metrics # NoMetrics
        /\ "merge_polars" \notin failed => merge_metrics # NoMetrics
        /\ "merge_delta" \notin failed => delta_metrics # NoMetrics

\* C26: reproducibility. Two runs with the same configuration and the same
\* seed (any seed that is set, 0 included) have identical produced and
\* received lists: same field values, same choices, same arrival order.
C26_SameSeedSameLists ==
    (/\ pairRun # <<>>
     /\ pairRun.pc = "done"
     /\ pairCfg.seed # "None"
     /\ pairCfg.dup_prob[1] = pairCfg.dup_prob[2]) =>
        /\ pairRun.produced[1] = pairRun.produced[2]
        /\ pairRun.received[1] = pairRun.received[2]

\* C27: duplication bound. Of two runs on the same seed that differ only in
\* dup_prob, the one with the larger dup_prob receives at least as many
\* duplicate sequence_ids.
C27_MoreDupProbMoreDupes ==
    (/\ pairRun # <<>>
     /\ pairRun.pc = "done"
     /\ SeedApplied(pairCfg.seed)
     /\ pairCfg.dup_prob[1] < pairCfg.dup_prob[2]) =>
        Cardinality(Dupes(pairRun.received[1]))
            <= Cardinality(Dupes(pairRun.received[2]))

====
